---------------------------- MODULE Spec2Model ----------------------------
(***************************************************************************)
(* Session registry of tele_app.py: TelegramClientManager (the handle      *)
(* store `clients` and the process-wide credentials), the request handlers *)
(* that resolve a session through it, and the lifespan shutdown.           *)
(*                                                                         *)
(* Every request runs as an asyncio task.  A task is atomic between two    *)
(* awaits that really suspend (network calls of the Telegram client); one  *)
(* action of the model is one such atomic stretch.                         *)
(***************************************************************************)
EXTENDS Integers, Sequences, FiniteSets, TLC

(* ------------------------------ bounds -------------------------------- *)
\* number of session strings saved by an earlier run of the process
NumSaved == 1
\* number of TelegramClient objects constructed during one run
MaxClients == 2
\* number of request tasks that can be in flight at the same time
MaxTasks == 2

\* The string of a StringSession encodes its auth key.  A client that connects
\* without one generates a key no other client has: FreshNames[c] names the
\* string of the key generated by the c-th client.  SavedNames are strings of
\* keys generated by an earlier run.
FreshNames == <<"k1", "k2", "k3", "k4", "k5", "k6">>
SavedNames == <<"s1", "s2", "s3">>
Saved == {SavedNames[i] : i \in 1..NumSaved}
\* valid StringSession strings
Handles == Saved \cup {FreshNames[c] : c \in 1..MaxClients}
\* strings a caller can send as a session hash: valid ones, the empty
\* string and a string that is no StringSession
Strings == Handles \cup {"", "bad"}
Tasks == 1..MaxTasks

AppIds == {0, 1}
AppHashes == {"", "x"}
Phones == {"+15550001111", ""}
Tokens == {"1:tok", ""}
\* recipients of send_message, as sequences of Unicode code points: "12",
\* "-5", "ab", "", ARABIC-INDIC DIGIT THREE, " 1_2" and a line feed, "1_"
Recipients == {<<49, 50>>, <<45, 53>>, <<97, 98>>, <<>>, <<1635>>,
               <<32, 49, 95, 50, 10>>, <<49, 95>>}

VARIABLES
    app_id,      \* client_manager.app_id: <<>> is None, <<v>> the value v
    app_hash,    \* client_manager.app_hash: <<>> is None, <<v>> the value v
    clients,     \* client_manager.clients: the dict's entry table, in insertion order
    conns,       \* the TelegramClient objects constructed so far: the string of
                 \* the session, whether the client is connected, and
                 \* (history) whether a create operation has stored it
    task,        \* the request tasks
    shutdown,    \* the lifespan task running disconnect_all
    issued       \* history: the handles a create operation has returned

vars == <<app_id, app_hash, clients, conns, task, shutdown, issued>>

(* --------------------------- the dict `clients` ------------------------ *)
\* A CPython dict keeps its entries in an array in insertion order; a deleted
\* entry leaves a hole, a new key is appended, an existing key is rewritten
\* in place.  (No resize happens below six appended entries.)
Tomb == [key |-> "", val |-> 0]

DictKeys(d) == {d[i].key : i \in 1..Len(d)} \ {""}

\* `k in d`
Contains(d, k) == k \in DictKeys(d)

\* len(d)
DictLen(d) == Cardinality({i \in 1..Len(d) : d[i] # Tomb})

IndexOf(d, k) == CHOOSE i \in 1..Len(d) : d[i].key = k

\* d[k], for k in d
GetItem(d, k) == d[IndexOf(d, k)].val

\* set(d.values())
DictValues(d) == {d[i].val : i \in {j \in 1..Len(d) : d[j] # Tomb}}

\* d[k] = v
SetItem(d, k, v) ==
    IF Contains(d, k)
    THEN [d EXCEPT ![IndexOf(d, k)].val = v]
    ELSE Append(d, [key |-> k, val |-> v])

\* a remove that drops every entry (`clear()` in place of `del d[k]`)
DelItemClears(d, k) == <<>>

\* del d[k], for k in d
DelItem(d, k) == [d EXCEPT ![IndexOf(d, k)] = Tomb]

\* iter(d.values())
NewIter(d) == [pos |-> 1, used |-> DictLen(d), len |-> DictLen(d)]

\* first index >= i that holds an entry, Len(d)+1 when there is none
NextEntry(d, i) ==
    IF \E j \in i..Len(d) : d[j] # Tomb
    THEN CHOOSE j \in i..Len(d) : d[j] # Tomb /\ \A m \in i..(j-1) : d[m] = Tomb
    ELSE Len(d) + 1

\* next(it): the value, the end of the iteration, or a RuntimeError
IterNext(d, it) ==
    LET j == NextEntry(d, it.pos) IN
    IF it.used # DictLen(d)
    THEN [kind |-> "RuntimeError", val |-> 0, it |-> it]
    ELSE IF j > Len(d)
    THEN [kind |-> "stop", val |-> 0, it |-> it]
    ELSE IF it.len = 0
    THEN [kind |-> "RuntimeError", val |-> 0, it |-> it]
    ELSE [kind |-> "value", val |-> d[j].val,
          it |-> [it EXCEPT !.pos = j + 1, !.len = it.len - 1]]

(* ----------------------------- credentials ----------------------------- *)
\* `not self.app_id`
NotAppId(x) == x = <<>> \/ x[1] = 0
\* `not self.app_hash`
NotAppHash(x) == x = <<>> \/ x[1] = ""

\* a check that compares with 0 and "" and lets None through
CredentialsUnsetNoneMissed ==
    \/ app_id # <<>> /\ app_id[1] = 0
    \/ app_hash # <<>> /\ app_hash[1] = ""

\* `if not self.app_id or not self.app_hash`
CredentialsUnset == NotAppId(app_id) \/ NotAppHash(app_hash)


(* ------------------------------- tasks --------------------------------- *)
\* operations called on the manager directly (they return or raise)
ManagerOps == {"create_client", "create_bot_client", "get_client", "remove_client"}
\* request handlers (they answer with an HTTP status)
HandlerOps == {"set_api_credentials", "create_session", "create_bot_session",
               "verify_otp", "verify_2fa", "send_message", "join_channel",
               "send_story"}

\* A task: pc "idle" while it serves no request, "done" in the state its
\* request ends in (the answer is in status, ret, err and msg), otherwise the
\* await it is suspended at.
IdleTask == [op |-> "", pc |-> "idle", arg |-> "", client |-> 0, status |-> 0,
             ret |-> "", err |-> "", msg |-> "", unauth |-> FALSE,
             uploaded |-> FALSE]

\* a task entering operation op with session hash h ("" when it takes none)
NewTask(op, h) == [IdleTask EXCEPT !.op = op, !.arg = h, !.pc = "run"]

\* The task of a request ends in the stretch that answers it: the state that
\* shows an answer is followed by that task being free again (Deliver),
\* before the event loop runs anything else.
Answered == \A t \in Tasks : task[t].pc # "done"

\* task t can take a request
Free(t) == Answered /\ task[t].pc = "idle"

\* task t is suspended at the await pc, which can end
At(t, pc) == Answered /\ task[t].pc = pc

\* the except clauses of the handlers: the status answered when exception
\* exc is raised inside the handler's try block
StatusOf(op, exc) ==
    IF op \in ManagerOps THEN 0
    ELSE IF op = "verify_otp" /\ exc = "PhoneCodeInvalidError" THEN 401
    ELSE IF op \in {"send_message", "join_channel"} /\ exc = "ValueError" THEN 400
    ELSE 500

\* exception exc with message msg is raised in the task
Raise(tk, exc, msg) ==
    [tk EXCEPT !.pc = "done", !.err = exc, !.msg = msg,
               !.status = StatusOf(tk.op, exc)]

\* the handler answers 200 (a manager operation returns), with handle ret
Return(tk, ret) ==
    [tk EXCEPT !.pc = "done", !.ret = ret,
               !.status = IF tk.op \in ManagerOps THEN 0 ELSE 200]

\* a check of the handle alone (`if not session_hash`), not of the store
GetClientFailsEmptyOnly(d, h) == h = ""

\* get_client: `if session_hash not in self.clients` raises
\* HTTPException(400, "Session not found"); str() of a Starlette
\* HTTPException is "<status>: <detail>".
GetClientFails(d, h) == h \notin DictKeys(d)

\* the end of get_client(h) in task tk, which goes on at pc with the client:
\* the HTTPException, or `return self.clients[session_hash]` (a KeyError
\* for a key the dict does not hold)
GetClientResult(tk, d, h, pc) ==
    IF GetClientFails(d, h)
    THEN Raise(tk, "HTTPException", "400: Session not found")
    ELSE IF ~Contains(d, h)
    THEN Raise(tk, "KeyError", h)
    ELSE [tk EXCEPT !.pc = pc, !.client = GetItem(d, h)]

\* session strings that name an auth key the library has seen in this process
UsedSessions == {conns[i].session : i \in 1..Len(conns)} \ {""}

\* session.save() of client c after a successful connect: the string the
\* session was made from, or the string of the key the connect generated
SessionSave(c) ==
    IF conns[c].session = "" THEN FreshNames[c] ELSE conns[c].session

Init ==
    /\ app_id = <<>>
    /\ app_hash = <<>>
    /\ clients = <<>>
    /\ conns = <<>>
    /\ task = [t \in Tasks |-> IdleTask]
    /\ shutdown = [pc |-> "init", it |-> NewIter(<<>>), cur |-> 0, stored |-> {}]
    /\ issued = {}

(* ---------------------- POST /set_api_credentials ---------------------- *)
SetApiCredentials(t, id, hash) ==
    /\ Free(t)
    /\ app_id' = <<id>>
    /\ app_hash' = <<hash>>
    /\ task' = [task EXCEPT ![t] = Return(NewTask("set_api_credentials", ""), "")]
    /\ UNCHANGED <<clients, conns, shutdown, issued>>

(* --------------------- TelegramClientManager.get_client ---------------- *)
GetClient(t, h) ==
    /\ Free(t)
    /\ task' = [task EXCEPT ![t] =
           GetClientResult(NewTask("get_client", h), clients, h, "done")]
    /\ UNCHANGED <<app_id, app_hash, clients, conns, shutdown, issued>>

(* ------------- create_client, and POST /create_session ----------------- *)
\* the membership test negated (`not in`)
AlreadyRegisteredNegated(d, sh) == sh # "" /\ ~Contains(d, sh)

\* `if session_hash and session_hash in self.clients`
AlreadyRegistered(d, sh) == sh # "" /\ Contains(d, sh)

\* create_client up to `await client.connect()`, in a task running op
CreateClientBegin(t, op, sh) ==
    IF CredentialsUnset
    THEN /\ task' = [task EXCEPT ![t] =
                Raise(NewTask(op, sh), "ValueError", "API credentials not set")]
         /\ UNCHANGED <<conns, issued>>
    ELSE IF AlreadyRegistered(clients, sh)
    THEN /\ task' = [task EXCEPT ![t] = Return(NewTask(op, sh), sh)]
         /\ issued' = issued \cup {sh}
         /\ UNCHANGED conns
    ELSE IF sh \notin Handles \cup {""}
    THEN \* StringSession(session_hash) rejects the string
         /\ task' = [task EXCEPT ![t] =
                Raise(NewTask(op, sh), "ValueError", "Not a valid string")]
         /\ UNCHANGED <<conns, issued>>
    ELSE /\ Len(conns) < MaxClients
         /\ conns' = Append(conns, [session |-> sh, connected |-> FALSE, registered |-> FALSE])
         /\ task' = [task EXCEPT ![t] =
                [NewTask(op, sh) EXCEPT !.pc = "connect", !.client = Len(conns) + 1]]
         /\ UNCHANGED issued

\* a caller can hold the string of a generated key only once it is generated
CreateClient(t, sh) ==
    /\ Free(t)
    /\ sh \in Handles \ Saved => sh \in UsedSessions
    /\ CreateClientBegin(t, "create_client", sh)
    /\ UNCHANGED <<app_id, app_hash, clients, shutdown>>

CreateSession(t, phone) ==
    /\ Free(t)
    /\ IF CredentialsUnset
       THEN \* raised before the try block: answered as it is
            /\ task' = [task EXCEPT ![t] =
                   [NewTask("create_session", "") EXCEPT
                       !.pc = "done", !.err = "HTTPException", !.status = 400,
                       !.msg = "API credentials not set. Please call /set_api_credentials first."]]
            /\ UNCHANGED <<conns, issued>>
       ELSE CreateClientBegin(t, "create_session", "")
    /\ UNCHANGED <<app_id, app_hash, clients, shutdown>>

\* `await client.connect()` has ended; on success the client is stored under
\* new_hash = session.save(), the ping handler is added and new_hash returned
Connect(t, ok) ==
    LET tk == task[t]
        c == tk.client IN
    /\ At(t, "connect")
    /\ IF ok
       THEN LET new_hash == SessionSave(c) IN
              /\ conns' = [conns EXCEPT ![c] = [session |-> new_hash, connected |-> TRUE, registered |-> TRUE]]
              /\ clients' = SetItem(clients, new_hash, c)
              /\ issued' = issued \cup {new_hash}
              /\ task' = [task EXCEPT ![t] =
                     IF tk.op = "create_session"
                     THEN [tk EXCEPT !.pc = "send_code", !.ret = new_hash]
                     ELSE Return(tk, new_hash)]
       ELSE /\ task' = [task EXCEPT ![t] = Raise(tk, "ConnectionError", "connect failed")]
            /\ UNCHANGED <<conns, clients, issued>>
    /\ UNCHANGED <<app_id, app_hash, shutdown>>

\* `await client.send_code_request(phone, force_sms=True)` has ended
SendCode(t, ok) ==
    LET tk == task[t] IN
    /\ At(t, "send_code")
    /\ IF ok
       THEN /\ conns[tk.client].connected
            /\ task' = [task EXCEPT ![t] = Return(tk, tk.ret)]
       ELSE task' = [task EXCEPT ![t] =
                Raise([tk EXCEPT !.ret = ""], "RPCError", "send_code_request failed")]
    /\ UNCHANGED <<app_id, app_hash, clients, conns, shutdown, issued>>

(* ----------- create_bot_client, and POST /create_bot_session ----------- *)
\* create_bot_client up to `await client.start(bot_token=bot_token)`
CreateBotClientBegin(t, op, token) ==
    IF CredentialsUnset
    THEN /\ task' = [task EXCEPT ![t] =
                Raise(NewTask(op, ""), "ValueError", "API credentials not set")]
         /\ UNCHANGED conns
    ELSE /\ Len(conns) < MaxClients
         /\ conns' = Append(conns, [session |-> "", connected |-> FALSE, registered |-> FALSE])
         /\ task' = [task EXCEPT ![t] =
                [NewTask(op, "") EXCEPT !.pc = "start", !.client = Len(conns) + 1]]

CreateBotClient(t, token) ==
    /\ Free(t)
    /\ CreateBotClientBegin(t, "create_bot_client", token)
    /\ UNCHANGED <<app_id, app_hash, clients, shutdown, issued>>

CreateBotSession(t, token) ==
    /\ Free(t)
    /\ CreateBotClientBegin(t, "create_bot_session", token)
    /\ UNCHANGED <<app_id, app_hash, clients, shutdown, issued>>

\* `await client.start(bot_token=...)` has ended: start connects and then signs
\* the bot in.  o = "ok": both succeeded; "connect_error": the connect failed;
\* "sign_in_error": the client connected and the sign-in was refused.
BotStartOutcomes == {"ok", "connect_error", "sign_in_error"}

BotStart(t, o) ==
    LET tk == task[t]
        c == tk.client IN
    /\ At(t, "start")
    /\ CASE o = "ok" ->
              LET new_hash == SessionSave(c) IN
                /\ conns' = [conns EXCEPT ![c] = [session |-> new_hash, connected |-> TRUE, registered |-> TRUE]]
                /\ clients' = SetItem(clients, new_hash, c)
                /\ issued' = issued \cup {new_hash}
                /\ task' = [task EXCEPT ![t] =
                       IF tk.op = "create_bot_session"
                       THEN [tk EXCEPT !.pc = "get_me", !.ret = new_hash]
                       ELSE Return(tk, new_hash)]
         [] o = "connect_error" ->
              /\ task' = [task EXCEPT ![t] = Raise(tk, "ConnectionError", "connect failed")]
              /\ UNCHANGED <<conns, clients, issued>>
         [] o = "sign_in_error" ->
              /\ conns' = [conns EXCEPT ![c] = [session |-> SessionSave(c), connected |-> TRUE, registered |-> FALSE]]
              /\ task' = [task EXCEPT ![t] = Raise(tk, "RPCError", "sign_in failed")]
              /\ UNCHANGED <<clients, issued>>
    /\ UNCHANGED <<app_id, app_hash, shutdown>>

\* `bot_info = await client.get_me()` of create_bot_session has ended
BotGetMe(t, ok) ==
    LET tk == task[t] IN
    /\ At(t, "get_me")
    /\ tk.op = "create_bot_session"
    /\ IF ok
       THEN /\ conns[tk.client].connected
            /\ task' = [task EXCEPT ![t] = Return(tk, tk.ret)]
       ELSE task' = [task EXCEPT ![t] =
                Raise([tk EXCEPT !.ret = ""], "RPCError", "get_me failed")]
    /\ UNCHANGED <<app_id, app_hash, clients, conns, shutdown, issued>>

(* ------------------ TelegramClientManager.remove_client ---------------- *)
\* a disconnect that is never awaited leaves the connection open
DisconnectedNotAwaited(cs, c) == cs

\* client.disconnect() of the library ends the connection and does not raise
Disconnected(cs, c) == [cs EXCEPT ![c].connected = FALSE]

\* remove_client up to `await self.clients[session_hash].disconnect()`
RemoveClient(t, h) ==
    /\ Free(t)
    /\ task' = [task EXCEPT ![t] =
           IF Contains(clients, h)
           THEN [NewTask("remove_client", h) EXCEPT
                    !.pc = "disconnect", !.client = GetItem(clients, h)]
           ELSE Return(NewTask("remove_client", h), "")]
    /\ UNCHANGED <<app_id, app_hash, clients, conns, shutdown, issued>>

\* the disconnect has ended: `del self.clients[session_hash]`
RemoveClientDel(t) ==
    LET tk == task[t] IN
    /\ At(t, "disconnect")
    /\ conns' = Disconnected(conns, tk.client)
    /\ IF Contains(clients, tk.arg)
       THEN /\ clients' = DelItem(clients, tk.arg)
            /\ task' = [task EXCEPT ![t] = Return(tk, "")]
       ELSE /\ task' = [task EXCEPT ![t] = Raise(tk, "KeyError", tk.arg)]
            /\ UNCHANGED clients
    /\ UNCHANGED <<app_id, app_hash, shutdown, issued>>

(* ------------- lifespan: TelegramClientManager.disconnect_all ---------- *)
\* One turn of `for client in self.clients.values()` in the lifespan task sd,
\* with the clients in state cs: next() on the iterator, then either the
\* await of client.disconnect(), or the end of the loop and
\* self.clients.clear(), or the RuntimeError of a dict that changed.
LoopTurn(sd, cs) ==
    LET r == IterNext(clients, sd.it) IN
    /\ conns' = cs
    /\ CASE r.kind = "value" ->
              /\ shutdown' = [sd EXCEPT !.pc = "disconnect", !.it = r.it, !.cur = r.val]
              /\ clients' = clients
         [] r.kind = "stop" ->
              /\ shutdown' = [sd EXCEPT !.pc = "done", !.it = NewIter(<<>>), !.cur = 0]
              /\ clients' = <<>>
         [] r.kind = "RuntimeError" ->
              /\ shutdown' = [sd EXCEPT !.pc = "raised", !.it = NewIter(<<>>), !.cur = 0]
              /\ clients' = clients

\* the server shuts down: lifespan resumes after its yield and calls
\* disconnect_all, which runs up to its first await.  `stored` keeps the
\* connections the store held at the call.
DisconnectAll ==
    /\ Answered
    /\ shutdown.pc = "init"
    /\ LoopTurn([shutdown EXCEPT !.it = NewIter(clients),
                                 !.stored = DictValues(clients)], conns)
    /\ UNCHANGED <<app_id, app_hash, task, issued>>

\* `await client.disconnect()` of the loop has ended
DisconnectAllNext ==
    /\ Answered
    /\ shutdown.pc = "disconnect"
    /\ LoopTurn(shutdown, Disconnected(conns, shutdown.cur))
    /\ UNCHANGED <<app_id, app_hash, task, issued>>

(* --------------------------- request handlers -------------------------- *)
\* `client = await client_manager.get_client(h)` at the head of a handler's
\* try block: the task goes on at pc with the client, or the HTTPException of
\* get_client is raised inside the try
Resolve(t, op, h, pc) ==
    task' = [task EXCEPT ![t] = GetClientResult(NewTask(op, h), clients, h, pc)]

\* a call of the library on the task's client can succeed only while the
\* client is connected
Live(tk) == conns[tk.client].connected

(* POST /verify_otp and POST /verify_2fa *)
VerifyOtp(t, h) ==
    /\ Free(t)
    /\ Resolve(t, "verify_otp", h, "sign_in")
    /\ UNCHANGED <<app_id, app_hash, clients, conns, shutdown, issued>>

Verify2fa(t, h) ==
    /\ Free(t)
    /\ Resolve(t, "verify_2fa", h, "sign_in")
    /\ UNCHANGED <<app_id, app_hash, clients, conns, shutdown, issued>>

\* what `await client.sign_in(...)` ends with
SignInOutcomes(op) ==
    {"ok", "error"} \cup
    (IF op = "verify_otp"
     THEN {"SessionPasswordNeededError", "PhoneCodeInvalidError"} ELSE {})

\* `await client.sign_in(...)` has ended.  The handler goes on to
\* `await client.get_me()`; verify_otp answers SessionPasswordNeededError
\* with a return (200, the session hash in the body) and
\* PhoneCodeInvalidError with HTTPException(401, "Invalid code provided.").
SignIn(t, o) ==
    LET tk == task[t] IN
    /\ At(t, "sign_in")
    /\ o \in SignInOutcomes(tk.op)
    /\ task' = [task EXCEPT ![t] =
           CASE o = "ok" -> [tk EXCEPT !.pc = "get_me"]
             [] o = "SessionPasswordNeededError" -> Return(tk, tk.arg)
             [] o = "PhoneCodeInvalidError" -> Raise(tk, o, "Invalid code provided.")
             [] o = "error" -> Raise(tk, "RPCError", "sign_in failed")]
    /\ o # "error" => Live(tk)
    /\ UNCHANGED <<app_id, app_hash, clients, conns, shutdown, issued>>

\* `user = await client.get_me()` of verify_otp and verify_2fa has ended
SignInGetMe(t, ok) ==
    LET tk == task[t] IN
    /\ At(t, "get_me")
    /\ tk.op \in {"verify_otp", "verify_2fa"}
    /\ IF ok
       THEN /\ Live(tk)
            /\ task' = [task EXCEPT ![t] = Return(tk, tk.arg)]
       ELSE task' = [task EXCEPT ![t] = Raise(tk, "RPCError", "get_me failed")]
    /\ UNCHANGED <<app_id, app_hash, clients, conns, shutdown, issued>>

(* POST /send_message *)
\* A character is its Unicode code point.  int() takes every decimal digit
\* (category Nd); the digits of a script are ten code points in a row, and
\* DigitZeros holds the zero of each (Unicode 14, "0" first).
DigitZeros ==
    {48, 1632, 1776, 1984, 2406, 2534, 2662, 2790, 2918, 3046, 3174, 3302,
     3430, 3558, 3664, 3792, 3872, 4160, 4240, 6112, 6160, 6470, 6608, 6784,
     6800, 6992, 7088, 7232, 7248, 42528, 43216, 43264, 43472, 43504, 43600,
     44016, 65296, 66720, 68912, 69734, 69872, 69942, 70096, 70384, 70736,
     70864, 71248, 71360, 71472, 71904, 72016, 72784, 73040, 73120, 92768,
     92864, 93008, 120782, 120792, 120802, 120812, 120822, 123200, 123632,
     125264, 130032}

Digits == UNION {z..(z + 9) : z \in DigitZeros}

\* the blanks int() drops at both ends of its argument
IntSpaces ==
    (9..13) \cup {32, 133, 160, 5760} \cup (8192..8202)
        \cup {8232, 8233, 8239, 8287, 12288}

\* int() raises ValueError for more digits than this (CPython's
\* int_max_str_digits)
MaxStrDigits == 4300

\* whether int(r) succeeds: blanks at the ends dropped, an optional sign,
\* then digits, with single underscores between digits only, and no more
\* than MaxStrDigits digits
IsIntLiteral(r) ==
    LET ink == {i \in 1..Len(r) : r[i] \notin IntSpaces} IN
    /\ ink # {}
    /\ LET lo == CHOOSE i \in ink : \A j \in 1..(i - 1) : r[j] \in IntSpaces
           hi == CHOOSE i \in ink : \A j \in (i + 1)..Len(r) : r[j] \in IntSpaces
           start == IF r[lo] \in {43, 45} THEN lo + 1 ELSE lo
       IN /\ start <= hi
          /\ \A i \in start..hi :
                \/ r[i] \in Digits
                \/ /\ r[i] = 95
                   /\ start < i /\ i < hi
                   /\ r[i - 1] \in Digits /\ r[i + 1] \in Digits
          /\ Cardinality({i \in start..hi : r[i] \in Digits}) <= MaxStrDigits

SendMessage(t, h, r) ==
    /\ Free(t)
    /\ Resolve(t, "send_message", h, IF IsIntLiteral(r) THEN "send" ELSE "get_entity")
    /\ UNCHANGED <<app_id, app_hash, clients, conns, shutdown, issued>>

(* POST /join_channel *)
JoinChannel(t, h) ==
    /\ Free(t)
    /\ Resolve(t, "join_channel", h, "get_entity")
    /\ UNCHANGED <<app_id, app_hash, clients, conns, shutdown, issued>>

\* `await client.get_entity(...)` has ended: the entity, the ValueError of
\* a name nobody has, or another failure
EntityOutcomes == {"ok", "ValueError", "error"}

GetEntity(t, o) ==
    LET tk == task[t] IN
    /\ At(t, "get_entity")
    /\ task' = [task EXCEPT ![t] =
           CASE o = "ok" -> [tk EXCEPT !.pc = IF tk.op = "send_message"
                                               THEN "send" ELSE "invite"]
             [] o = "ValueError" -> Raise(tk, "ValueError", "Cannot find any entity")
             [] o = "error" -> Raise(tk, "RPCError", "get_entity failed")]
    /\ o \in {"ok", "ValueError"} => Live(tk)
    /\ UNCHANGED <<app_id, app_hash, clients, conns, shutdown, issued>>

\* `await client.send_message(entity, message)`, or the
\* `await client(InviteToChannelRequest(channel, [client.get_me()]))` of
\* join_channel, has ended; what the library makes of the get_me() that is
\* not awaited is the library's: every end is possible here.  The await is
\* inside the try, so a ValueError it raises is answered 400.
SendOutcomes == {"ok", "ValueError", "error"}

Send(t, o) ==
    LET tk == task[t] IN
    /\ At(t, "send") \/ At(t, "invite")
    /\ task' = [task EXCEPT ![t] =
           CASE o = "ok" -> Return(tk, "")
             [] o = "ValueError" -> Raise(tk, "ValueError", "invalid argument")
             [] o = "error" -> Raise(tk, "RPCError", "request failed")]
    /\ o = "ok" => Live(tk)
    /\ UNCHANGED <<app_id, app_hash, clients, conns, shutdown, issued>>

(* POST /send_story *)
SendStory(t, h) ==
    /\ Free(t)
    /\ Resolve(t, "send_story", h, "is_user_authorized")
    /\ UNCHANGED <<app_id, app_hash, clients, conns, shutdown, issued>>

\* `await client.is_user_authorized()` has ended: with the answer of the
\* Telegram server (whether the session is logged in is the server's state,
\* the manager keeps none), or with a failure of the request.  The
\* HTTPException(401) of an unauthorized client is raised inside the try.
AuthAnswers == {"True", "False", "error"}

IsUserAuthorized(t, o) ==
    LET tk == task[t] IN
    /\ At(t, "is_user_authorized")
    /\ task' = [task EXCEPT ![t] =
           CASE o = "error" -> Raise(tk, "RPCError", "is_user_authorized failed")
             [] o = "False" -> Raise([tk EXCEPT !.unauth = TRUE], "HTTPException",
                                     "401: Unauthorized. Please authenticate first.")
             [] o = "True" -> [tk EXCEPT !.pc = "get_me"]]
    /\ o # "error" => Live(tk)
    /\ UNCHANGED <<app_id, app_hash, clients, conns, shutdown, issued>>

\* `me = await client.get_me()` has ended; the handler goes on to build the
\* request, which calls client.upload_file(...) and awaits it
StoryGetMe(t, ok) ==
    LET tk == task[t] IN
    /\ At(t, "get_me")
    /\ tk.op = "send_story"
    /\ IF ok
       THEN /\ Live(tk)
            /\ task' = [task EXCEPT ![t] =
                   [tk EXCEPT !.pc = "upload_file", !.uploaded = TRUE]]
       ELSE task' = [task EXCEPT ![t] = Raise(tk, "RPCError", "get_me failed")]
    /\ UNCHANGED <<app_id, app_hash, clients, conns, shutdown, issued>>

\* `await client.upload_file(story_request.file_path)` has ended; the
\* handler goes on to `await client(SendStoryRequest(...))`
UploadFile(t, ok) ==
    LET tk == task[t] IN
    /\ At(t, "upload_file")
    /\ IF ok
       THEN /\ Live(tk)
            /\ task' = [task EXCEPT ![t] = [tk EXCEPT !.pc = "send_story_request"]]
       ELSE task' = [task EXCEPT ![t] = Raise(tk, "RPCError", "upload_file failed")]
    /\ UNCHANGED <<app_id, app_hash, clients, conns, shutdown, issued>>

\* `await client(functions.stories.SendStoryRequest(...))` has ended
PostStory(t, ok) ==
    LET tk == task[t] IN
    /\ At(t, "send_story_request")
    /\ IF ok
       THEN /\ Live(tk)
            /\ task' = [task EXCEPT ![t] = Return(tk, "")]
       ELSE task' = [task EXCEPT ![t] =
                Raise(tk, "RPCError", "SendStoryRequest failed")]
    /\ UNCHANGED <<app_id, app_hash, clients, conns, shutdown, issued>>

(* --------------------------- specifications ---------------------------- *)
\* the task that has answered its request ends
Deliver(t) ==
    /\ task[t].pc = "done"
    /\ task' = [task EXCEPT ![t] = IdleTask]
    /\ UNCHANGED <<app_id, app_hash, clients, conns, shutdown, issued>>

\* The tasks that write the store or a connection (the operations of the
\* manager, the two create handlers, set_api_credentials and the lifespan
\* task), interleaved at their awaits: the event loop runs any task that can
\* go on, and calls arrive at any time, also while the lifespan task is
\* inside disconnect_all.  The handlers that only look a session up write
\* neither the store nor a connection; NextSeq has them.
Next ==
    \/ \E t \in Tasks : Deliver(t)
    \/ \E t \in Tasks : Free(t) /\ \E id \in AppIds, hash \in AppHashes : SetApiCredentials(t, id, hash)
    \/ \E t \in Tasks : Free(t) /\ \E h \in Strings : GetClient(t, h)
    \/ \E t \in Tasks : Free(t) /\ \E sh \in Strings : CreateClient(t, sh)
    \/ \E t \in Tasks : Free(t) /\ \E token \in Tokens : CreateBotClient(t, token)
    \/ \E t \in Tasks : Free(t) /\ \E h \in Strings : RemoveClient(t, h)
    \/ \E t \in Tasks : Free(t) /\ \E phone \in Phones : CreateSession(t, phone)
    \/ \E t \in Tasks : Free(t) /\ \E token \in Tokens : CreateBotSession(t, token)
    \/ \E t \in Tasks : At(t, "connect") /\ \E ok \in BOOLEAN : Connect(t, ok)
    \/ \E t \in Tasks : At(t, "send_code") /\ \E ok \in BOOLEAN : SendCode(t, ok)
    \/ \E t \in Tasks : At(t, "start") /\ \E o \in BotStartOutcomes : BotStart(t, o)
    \/ \E t \in Tasks : At(t, "get_me") /\ \E ok \in BOOLEAN : BotGetMe(t, ok)
    \/ \E t \in Tasks : At(t, "disconnect") /\ RemoveClientDel(t)
    \/ DisconnectAll
    \/ DisconnectAllNext

Spec == Init /\ [][Next]_vars

\* no task is between two awaits, and t is the task that takes the next call
Quiet(t) ==
    /\ \A u \in Tasks : task[u].pc = "idle" /\ t <= u
    /\ shutdown.pc # "disconnect"

\* Every operation, one call at a time: a call begins when the call before
\* it has ended.
NextSeq ==
    \/ \E t \in Tasks : Deliver(t)
    \/ \E t \in Tasks : Quiet(t) /\ \E id \in AppIds, hash \in AppHashes : SetApiCredentials(t, id, hash)
    \/ \E t \in Tasks : Quiet(t) /\ \E h \in Strings : GetClient(t, h)
    \/ \E t \in Tasks : Quiet(t) /\ \E sh \in Strings : CreateClient(t, sh)
    \/ \E t \in Tasks : Quiet(t) /\ \E token \in Tokens : CreateBotClient(t, token)
    \/ \E t \in Tasks : Quiet(t) /\ \E h \in Strings : RemoveClient(t, h)
    \/ \E t \in Tasks : Quiet(t) /\ \E phone \in Phones : CreateSession(t, phone)
    \/ \E t \in Tasks : Quiet(t) /\ \E token \in Tokens : CreateBotSession(t, token)
    \/ \E t \in Tasks : Quiet(t) /\ \E h \in Strings : VerifyOtp(t, h)
    \/ \E t \in Tasks : Quiet(t) /\ \E h \in Strings : Verify2fa(t, h)
    \/ \E t \in Tasks : Quiet(t) /\ \E h \in Strings, r \in Recipients : SendMessage(t, h, r)
    \/ \E t \in Tasks : Quiet(t) /\ \E h \in Strings : JoinChannel(t, h)
    \/ \E t \in Tasks : Quiet(t) /\ \E h \in Strings : SendStory(t, h)
    \/ \E t \in Tasks : At(t, "connect") /\ \E ok \in BOOLEAN : Connect(t, ok)
    \/ \E t \in Tasks : At(t, "send_code") /\ \E ok \in BOOLEAN : SendCode(t, ok)
    \/ \E t \in Tasks : At(t, "start") /\ \E o \in BotStartOutcomes : BotStart(t, o)
    \/ \E t \in Tasks : At(t, "get_me") /\ \E ok \in BOOLEAN : BotGetMe(t, ok)
    \/ \E t \in Tasks : At(t, "disconnect") /\ RemoveClientDel(t)
    \/ \E t \in Tasks : At(t, "sign_in") /\ \E o \in SignInOutcomes(task[t].op) : SignIn(t, o)
    \/ \E t \in Tasks : At(t, "get_me") /\ \E ok \in BOOLEAN : SignInGetMe(t, ok)
    \/ \E t \in Tasks : At(t, "get_entity") /\ \E o \in EntityOutcomes : GetEntity(t, o)
    \/ \E t \in Tasks : At(t, "send") /\ \E o \in SendOutcomes : Send(t, o)
    \/ \E t \in Tasks : At(t, "invite") /\ \E o \in SendOutcomes : Send(t, o)
    \/ \E t \in Tasks : At(t, "is_user_authorized") /\ \E o \in AuthAnswers : IsUserAuthorized(t, o)
    \/ \E t \in Tasks : At(t, "get_me") /\ \E ok \in BOOLEAN : StoryGetMe(t, ok)
    \/ \E t \in Tasks : At(t, "upload_file") /\ \E ok \in BOOLEAN : UploadFile(t, ok)
    \/ \E t \in Tasks : At(t, "send_story_request") /\ \E ok \in BOOLEAN : PostStory(t, ok)
    \/ (\E t \in Tasks : Quiet(t)) /\ DisconnectAll
    \/ DisconnectAllNext

SpecSeq == Init /\ [][NextSeq]_vars

(* ------------------------------ properties ----------------------------- *)
TypeOK ==
    /\ app_id \in {<<>>} \cup {<<id>> : id \in AppIds}
    /\ app_hash \in {<<>>} \cup {<<hash>> : hash \in AppHashes}
    /\ Len(conns) <= MaxClients
    /\ DictKeys(clients) \subseteq Handles
    /\ DictValues(clients) \subseteq 1..Len(conns)
    /\ issued \subseteq Handles
    /\ shutdown.pc \in {"init", "disconnect", "done", "raised"}
    /\ \A t \in Tasks : task[t].op \in ManagerOps \cup HandlerOps \cup {""}

\* in this step task t takes a call of op and runs it up to its first await
Begins(t, op) ==
    /\ task[t].pc = "idle"
    /\ task'[t].pc # "idle"
    /\ task'[t].op = op

\* the store and the connections are as they were
StoreUnchanged == clients' = clients /\ conns' = conns

\* credentials as the process starts with them: never set
NeverSet == app_id = <<>> /\ app_hash = <<>>

\* the answer of task tk is the configuration error: the ValueError of the
\* manager (wrapped by create_bot_session) or the HTTP 400 of create_session
IsConfigurationError(tk) ==
    /\ tk.pc = "done"
    /\ \/ tk.err = "ValueError" /\ tk.msg = "API credentials not set"
       \/ /\ tk.err = "HTTPException"
          /\ tk.status = 400
          /\ tk.msg = "API credentials not set. Please call /set_api_credentials first."

\* the handlers that take a session handle
SessionHandlers ==
    {"verify_otp", "verify_2fa", "send_message", "join_channel", "send_story"}

CreateOps == {"create_client", "create_bot_client", "create_session", "create_bot_session"}

\* the number of entries of the store that hold connection c
EntriesOf(c) ==
    Cardinality({i \in 1..Len(clients) : clients[i] # Tomb /\ clients[i].val = c})

(* C1: a request to verify_otp, verify_2fa, send_message, join_channel or  *)
(* send_story whose handle is absent from the store is answered with HTTP  *)
(* status 400, in every reachable state of the store, and leaves the store *)
(* unchanged.                                                              *)
C1_AbsentHandleAnswers400 ==
    [][\A t \in Tasks : \A op \in SessionHandlers :
          (Begins(t, op) /\ GetClientFails(clients, task'[t].arg))
          => /\ task'[t].pc = "done"
             /\ task'[t].status = 400
             /\ StoreUnchanged]_vars

(* C2: create_session, create_bot_session, create_client and               *)
(* create_bot_client, called while the credentials have never been set,    *)
(* end with a configuration error for every phone or token; no client is   *)
(* constructed or connected and the store is unchanged.                    *)
C2_NeverSetIsConfigurationError ==
    [][\A t \in Tasks : \A op \in CreateOps :
          (Begins(t, op) /\ NeverSet)
          => /\ IsConfigurationError(task'[t])
             /\ task'[t].client = 0
             /\ StoreUnchanged]_vars

C2_Witness ==
    \E t1 \in Tasks :
        /\ NeverSet
        /\ task[t1].op = "create_bot_session"
        /\ IsConfigurationError(task[t1])
        /\ task[t1].status = 500

(* C3: once set_credentials has stored an app_id and an app_hash, whatever *)
(* their values (0 and the empty string included), create_client and       *)
(* create_bot_client do not fail with the configuration error.             *)
C3_SetCredentialsAlwaysEnable ==
    [][\A t \in Tasks : \A op \in {"create_client", "create_bot_client"} :
          (Begins(t, op) /\ app_id # <<>> /\ app_hash # <<>>)
          => ~IsConfigurationError(task'[t])]_vars

(* C4: with credentials set, create_client(h) for a handle h of the store  *)
(* returns h, constructs no client, and leaves the store (its keys and the *)
(* connection under each key) and every connection unchanged; so a         *)
(* repeated call meets the same state and gives the same result.           *)
C4_RegisteredHandleShortCircuits ==
    [][\A t \in Tasks :
          (Begins(t, "create_client") /\ ~CredentialsUnset
             /\ Contains(clients, task'[t].arg))
          => /\ task'[t].pc = "done"
             /\ task'[t].err = ""
             /\ task'[t].ret = task'[t].arg
             /\ task'[t].client = 0
             /\ StoreUnchanged]_vars

C4_Witness ==
    \E t1 \in Tasks :
        /\ task[t1].op = "create_client"
        /\ task[t1].pc = "done"
        /\ task[t1].err = ""
        /\ Contains(clients, task[t1].arg)
        /\ task[t1].ret = task[t1].arg
        /\ task[t1].client = 0

(* C5: when disconnect_all returns, the store has no entries, every        *)
(* connection the store held at the call is disconnected, and get_client   *)
(* fails with not found for every handle.                                  *)
C5_DisconnectAllEmptiesStore ==
    [][(shutdown.pc # "done" /\ shutdown'.pc = "done")
          => /\ clients' = <<>>
             /\ \A c \in shutdown'.stored : ~conns'[c].connected
             /\ \A h \in Strings : GetClientFails(clients', h)]_vars

C5_Witness ==
    /\ shutdown.pc = "done"
    /\ Cardinality(shutdown.stored) = 2
    /\ \A c \in shutdown.stored : ~conns[c].connected
    /\ clients = <<>>

(* C6: after any sequence of create_client, create_bot_client,             *)
(* remove_client and disconnect_all, every key of the store is a handle    *)
(* that a create operation has returned, and get_client(h) returns the     *)
(* connection stored under h when h is a key of the store and fails with   *)
(* not found otherwise, without changing the store.                        *)
C6_GetClientFollowsStore ==
    /\ [](DictKeys(clients) \subseteq issued)
    /\ [][\A t \in Tasks :
             Begins(t, "get_client")
             => /\ StoreUnchanged
                /\ task'[t].pc = "done"
                /\ IF task'[t].arg \in DictKeys(clients)
                   THEN /\ task'[t].err = ""
                        /\ task'[t].client = GetItem(clients, task'[t].arg)
                   ELSE /\ task'[t].err = "HTTPException"
                        /\ task'[t].msg = "400: Session not found"
                        /\ task'[t].client = 0]_vars

\* a lookup of a handle that was issued and has been removed since
C6_Witness ==
    \E t1 \in Tasks :
        /\ task[t1].op = "get_client"
        /\ task[t1].pc = "done"
        /\ task[t1].arg \in issued \ DictKeys(clients)
        /\ task[t1].err = "HTTPException"
        /\ DictKeys(clients) # {}

(* C7: send_story on a stored session whose client is not authorized is    *)
(* answered with HTTP status 401, and neither uploads the file nor posts   *)
(* the story.                                                              *)
C7_UnauthorizedStoryAnswers401 ==
    \A t \in Tasks :
        (task[t].op = "send_story" /\ task[t].pc = "done" /\ task[t].unauth)
        => task[t].status = 401 /\ ~task[t].uploaded

(* C8: remove_client(h), for h in the store, disconnects the connection    *)
(* stored under h and deletes that entry; for h absent it does nothing and *)
(* raises nothing.  Every other entry, every other connection and the      *)
(* credentials are unchanged.                                              *)
C8_RemoveClientFrame ==
    [][\A t \in Tasks :
          /\ Begins(t, "remove_client")
             => /\ StoreUnchanged
                /\ app_id' = app_id /\ app_hash' = app_hash
                /\ task'[t].err = ""
                /\ IF Contains(clients, task'[t].arg)
                   THEN /\ task'[t].pc = "disconnect"
                        /\ task'[t].client = GetItem(clients, task'[t].arg)
                   ELSE task'[t].pc = "done"
          /\ (task[t].op = "remove_client" /\ task[t].pc = "disconnect"
                /\ task'[t].pc = "done")
             => /\ task'[t].err = ""
                /\ ~conns'[task[t].client].connected
                /\ \A c \in 1..Len(conns) : c # task[t].client => conns'[c] = conns[c]
                /\ Len(conns') = Len(conns)
                /\ DictKeys(clients') = DictKeys(clients) \ {task[t].arg}
                /\ \A k \in DictKeys(clients') : GetItem(clients', k) = GetItem(clients, k)
                /\ app_id' = app_id /\ app_hash' = app_hash]_vars

\* a removal has ended and left the other entry of the store in place
C8_Witness ==
    \E t1 \in Tasks :
        /\ task[t1].op = "remove_client"
        /\ task[t1].pc = "done"
        /\ task[t1].client # 0
        /\ task[t1].err = ""
        /\ ~conns[task[t1].client].connected
        /\ ~Contains(clients, task[t1].arg)
        /\ \E k \in DictKeys(clients) : conns[GetItem(clients, k)].connected

(* C9: in every reachable state, under any interleaving of create_client   *)
(* and create_bot_client tasks, every connection that a create operation   *)
(* has opened and stored and that is not disconnected is the value of      *)
(* exactly one entry of the store.                                         *)
C9_LiveConnectionInOneEntry ==
    \A c \in 1..Len(conns) :
        (conns[c].registered /\ conns[c].connected) => EntriesOf(c) = 1

(* C10: disconnect_all, run once at shutdown, never raises, whatever       *)
(* create_client, create_bot_client and remove_client tasks are in flight, *)
(* and when it returns the store is empty and no connection that a create  *)
(* operation has stored is still connected.                                *)
C10_ShutdownCompletesClean ==
    [][/\ shutdown'.pc # "raised"
       /\ (shutdown.pc # "done" /\ shutdown'.pc = "done")
          => /\ clients' = <<>>
             /\ \A c \in 1..Len(conns') :
                    conns'[c].registered => ~conns'[c].connected]_vars

=============================================================================
